---- MODULE Spec2Model ----
(***************************************************************************)
(* CovarianceTracker<_Scalar, _Dimension>: a windowed tracker of the mean  *)
(* vector and the sample covariance matrix of the last data_length_ data   *)
(* points (src/src/covariance-tracker/include/covariance-tracker/          *)
(* covariance-tracker.h, the lazy dirty-flag revision).                    *)
(*                                                                         *)
(* double values are modelled as exact rationals <<numerator,denominator>> *)
(* in lowest terms; floating-point rounding is not modelled.  A division   *)
(* by zero gives the IEEE results NaN (0/0) or an infinity.                *)
(***************************************************************************)
EXTENDS Integers, Sequences, FiniteSets, TLC

\* ------------------------------------------------------------------ bounds
\* largest template argument _Dimension explored
MaxDim == 2
\* largest table explored: _Dimension * len <= MaxCells
MaxCells == 4
\* number of data points a caller adds beyond the length of the window
MaxExtra == 1

\* -------------------------------------------------------- double arithmetic
Abs(x) == IF x < 0 THEN -x ELSE x

RECURSIVE GCD(_, _)
GCD(a, b) == IF b = 0 THEN a ELSE GCD(b, a % b)

\* the rational n/d in lowest terms; d = 0 gives NaN <<0,0>> or <<+-1,0>>
Rat(n, d) ==
  IF d = 0 THEN <<(IF n > 0 THEN 1 ELSE IF n < 0 THEN -1 ELSE 0), 0>>
  ELSE LET g == GCD(Abs(n), Abs(d))
           s == IF d < 0 THEN -1 ELSE 1
       IN  <<(s * n) \div g, (s * d) \div g>>

Zero == <<0, 1>>
NaN == <<0, 0>>

RAdd(a, b) == Rat(a[1] * b[2] + b[1] * a[2], a[2] * b[2])
RSub(a, b) == Rat(a[1] * b[2] - b[1] * a[2], a[2] * b[2])
RMul(a, b) == Rat(a[1] * b[1], a[2] * b[2])
RDiv(a, b) == Rat(a[1] * b[2], a[2] * b[1])
RLeq(a, b) == a[2] # 0 /\ b[2] # 0 /\ a[1] * b[2] <= b[1] * a[2]

\* static_cast<double>(x) of an int or of a _Scalar sample
ToDouble(x) == <<x, 1>>

\* values an uninitialized double may hold (Eigen leaves a default-constructed
\* or freshly sized matrix uninitialized)
Indeterminate == {Zero, <<-1, 1>>}

VARIABLES
  Dimension,          \* template argument _Dimension
  data_length_,
  newest_data_,
  num_used_data_,
  update_mean_, update_cov_, update_residuals_,
  mean_,              \* [0..Dimension-1 -> double]
  data_double_,       \* [0..data_length_-1 -> [0..Dimension-1 -> double]]
  residuals_,         \* like data_double_
  covariance_,        \* [0..Dimension-1 -> [0..Dimension-1 -> double]]
  pc,                 \* "running", or "aborted" (assert) / "crashed" (trap)
  ret,                \* the last call and what it returned
  feed,               \* the caller's data stream: feed[k] is the set of scalars
                      \* the k-th data point is made of
  inserts,            \* number of calls of addData(Eigen point) so far
  recent,             \* the last (at most data_length_) points added, oldest first
  seenMean, seenCov,  \* values getMean / getCovariance returned since the last addData
  written             \* the rows of data_double_ that addData has written

tracker == <<data_length_, newest_data_, num_used_data_, update_mean_, update_cov_,
             update_residuals_, mean_, data_double_, residuals_, covariance_>>
observer == <<ret, inserts, recent, seenMean, seenCov, written>>
vars == <<Dimension, feed, pc, tracker, observer>>

Cols == 0 .. (Dimension - 1)
Rows == 0 .. (data_length_ - 1)

ZeroVector == [i \in Cols |-> Zero]
ZeroMatrix == [i \in Cols |-> [j \in Cols |-> Zero]]

\* a call and its result: op, the length of the argument, and the returned
\* double / vector / matrix / int (the unused ones are zero)
Result(op, len, frac, vec, mat, int) ==
  [op |-> op, arglen |-> len, frac |-> frac, vec |-> vec, mat |-> mat, int |-> int]

\* ------------------------------------------------------------ the algorithms
\* mutant: the division done on the ints, before the cast to double
FractionUsedIntDivision(used, len) ==
  IF len = 0 THEN NaN ELSE ToDouble(used \div len)

\* getFractionUsed: static_cast<double>(num_used_data_) / static_cast<double>(data_length_)
FractionUsed(used, len) == RDiv(ToDouble(used), ToDouble(len))

\* mutant: the marker stops at the last row instead of wrapping to row 0
NextNewestClamped(newest, len) ==
  IF newest + 1 < len THEN newest + 1 ELSE newest

\* addData: ++newest_data_; newest_data_ %= data_length_;
NextNewest(newest, len) == (newest + 1) % len

\* mutant: the count grows once more after the maximum is reached
NextNumUsedOffByOne(used, len) == IF used <= len THEN used + 1 ELSE used

\* addData: if (num_used_data_ < data_length_) ++num_used_data_;
NextNumUsed(used, len) == IF used < len THEN used + 1 ELSE used

\* mutant: the loop copies point(0) into every column
InsertRowFirstScalar(data, row, point) ==
  [data EXCEPT ![row] = [i \in Cols |-> ToDouble(point[0])]]

\* addData: data_double_(newest_data_, i) = static_cast<double>(point(i))
InsertRow(data, row, point) ==
  [data EXCEPT ![row] = [i \in Cols |-> ToDouble(point[i])]]

\* mutant: update_residuals_ is not set
AlertFlagsNoResiduals(mean, cov, res) == <<TRUE, TRUE, res>>

\* mutant: update_mean_ is not set
AlertFlagsNoMean(mean, cov, res) == <<mean, TRUE, TRUE>>

\* addData: update_mean_ = true; update_cov_ = true; update_residuals_ = true,
\* whatever the flags <<update_mean_, update_cov_, update_residuals_>> were
AlertFlags(mean, cov, res) == <<TRUE, TRUE, TRUE>>

\* m.block(0, 0, n, _Dimension).col(i).sum()
RECURSIVE ColumnSum(_, _, _)
ColumnSum(m, n, i) ==
  IF n = 0 THEN Zero ELSE RAdd(ColumnSum(m, n - 1, i), m[n - 1][i])

\* mutant: the column sum taken over the whole table, not over the used block
MeanOfWholeTable(data, used) ==
  [i \in Cols |-> RDiv(ColumnSum(data, data_length_, i), ToDouble(used))]

\* getMean: mean_(i) = column sum of the first num_used_data_ rows / num_used_data_
MeanOf(data, used) ==
  [i \in Cols |-> RDiv(ColumnSum(data, used, i), ToDouble(used))]

\* mutant: the test of the flag inverted
MeanValueInverted(update, data, used, mean) ==
  IF ~update THEN MeanOf(data, used) ELSE mean

\* getMean: if (update_mean_) recompute, else the cached mean_
MeanValue(update, data, used, mean) ==
  IF update THEN MeanOf(data, used) ELSE mean

\* mutant: the covariance recomputed with fewer than two data points
NeedsCovarianceAnyCount(update, used) == update

\* getCovariance: if (update_cov_ && num_used_data_ > 1)
NeedsCovariance(update, used) == update /\ used > 1

\* constructor: columns_[k] is all zero but for column k, which is all 1.0
Columns(k) ==
  [r \in Rows |-> [i \in Cols |-> IF i = k THEN ToDouble(1) ELSE Zero]]

\* calculateResiduals: tmp_means = Zero; tmp_means += columns_[k] * mean_(k) for each k
RECURSIVE TmpMeans(_, _)
TmpMeans(mean, k) ==
  IF k = 0 THEN [r \in Rows |-> [i \in Cols |-> Zero]]
  ELSE LET prev == TmpMeans(mean, k - 1)
       IN  [r \in Rows |-> [i \in Cols |->
              RAdd(prev[r][i], RMul(Columns(k - 1)[r][i], mean[k - 1]))]]

\* calculateResiduals: residuals_ = data_double_ - tmp_means (every row of the table)
ResidualsOf(data, mean) ==
  LET tmp_means == TmpMeans(mean, Dimension)
  IN  [r \in Rows |-> [i \in Cols |-> RSub(data[r][i], tmp_means[r][i])]]

\* mutant: column i of the residuals multiplied with itself
RECURSIVE GramEntrySameColumn(_, _, _, _)
GramEntrySameColumn(res, n, i, j) ==
  IF n = 0 THEN Zero
  ELSE RAdd(GramEntrySameColumn(res, n - 1, i, j),
            RMul(res[n - 1][i], res[n - 1][i]))

\* (res.block(0,0,n,D).transpose() * res.block(0,0,n,D))(i, j)
RECURSIVE GramEntry(_, _, _, _)
GramEntry(res, n, i, j) ==
  IF n = 0 THEN Zero
  ELSE RAdd(GramEntry(res, n - 1, i, j), RMul(res[n - 1][i], res[n - 1][j]))

\* mutant: the population covariance, divisor num_used_data_
CovarianceOfPopulation(res, used) ==
  [i \in Cols |-> [j \in Cols |->
     RDiv(GramEntry(res, used, i, j), ToDouble(used))]]

\* getCovariance: the Gram matrix of the first num_used_data_ residual rows
\* divided by (static_cast<double>(num_used_data_) - 1.0)
CovarianceOf(res, used) ==
  [i \in Cols |-> [j \in Cols |->
     RDiv(GramEntry(res, used, i, j), RSub(ToDouble(used), ToDouble(1)))]]

\* mutant: the flags constructed true (stale)
InitialFlagStale == TRUE

\* constructor: update_mean_(false), update_cov_(false), update_residuals_(false)
InitialFlag == FALSE

\* ------------------------------------------------------------- construction
\* CovarianceTracker(int len): the flags false, newest_data_ -1, num_used_data_
\* 0, covariance_ zero; mean_, data_double_ and residuals_ are not initialized
Construct(dim, len) ==
  /\ Dimension = dim
  /\ data_length_ = len
  /\ update_mean_ = InitialFlag
  /\ update_cov_ = InitialFlag
  /\ update_residuals_ = InitialFlag
  /\ newest_data_ = -1
  /\ num_used_data_ = 0
  /\ mean_ \in [0 .. (dim - 1) -> Indeterminate]
  /\ \E g \in Indeterminate :
       /\ data_double_ = [r \in 0 .. (len - 1) |-> [i \in 0 .. (dim - 1) |-> g]]
       /\ residuals_ = [r \in 0 .. (len - 1) |-> [i \in 0 .. (dim - 1) |-> g]]
  /\ covariance_ = [i \in 0 .. (dim - 1) |-> [j \in 0 .. (dim - 1) |-> Zero]]
  /\ pc = "running"
  /\ ret = Result("CovarianceTracker", 0, Zero,
                  [i \in 0 .. (dim - 1) |-> Zero],
                  [i \in 0 .. (dim - 1) |-> [j \in 0 .. (dim - 1) |-> Zero]], len)
  /\ inserts = 0
  /\ recent = << >>
  /\ seenMean = << >>
  /\ seenCov = << >>
  /\ written = {}

\* any dimension and any window length that fit MaxCells; the k-th data point
\* of the stream is made of the scalars 0 and k
InitGeneral ==
  \E dim \in 1 .. MaxDim, len \in 0 .. MaxCells :
    /\ dim * len <= MaxCells
    /\ Construct(dim, len)
    /\ feed = [k \in 1 .. (len + MaxExtra) |-> {0, k}]

\* CovarianceTracker<double, 1>(5) fed the data points 1, 2, 3, 4, 5
InitScenario ==
  /\ Construct(1, 5)
  /\ feed = <<{1}, {2}, {3}, {4}, {5}>>

Init == InitGeneral \/ InitScenario

\* --------------------------------------------------------------- operations
\* the last n elements of the sequence s
LastN(s, n) ==
  IF Len(s) <= n THEN s ELSE SubSeq(s, Len(s) - n + 1, Len(s))

\* double addData(const Eigen::Matrix<_Scalar, _Dimension, 1> &point),
\* reached from a call with an argument of arglen elements
AddDataCore(arglen, point) ==
  IF data_length_ = 0
  THEN \* newest_data_ %= 0 traps; a build that does not trap writes row 0 of
       \* an empty table
       /\ pc' = "crashed"
       /\ ret' = Result("addData", arglen, Zero, ZeroVector, ZeroMatrix, 0)
       /\ UNCHANGED <<Dimension, feed, tracker, inserts, recent,
                      seenMean, seenCov, written>>
  ELSE LET newest == NextNewest(newest_data_, data_length_)
           used == NextNumUsed(num_used_data_, data_length_)
           flags == AlertFlags(update_mean_, update_cov_, update_residuals_)
       IN  /\ newest_data_' = newest
           /\ num_used_data_' = used
           /\ data_double_' = InsertRow(data_double_, newest, point)
           /\ update_mean_' = flags[1]
           /\ update_cov_' = flags[2]
           /\ update_residuals_' = flags[3]
           /\ ret' = Result("addData", arglen, FractionUsed(used, data_length_),
                            ZeroVector, ZeroMatrix, 0)
           /\ inserts' = inserts + 1
           /\ recent' = LastN(Append(recent, [i \in Cols |-> ToDouble(point[i])]),
                              data_length_)
           /\ seenMean' = << >>
           /\ seenCov' = << >>
           /\ written' = written \cup {newest}
           /\ UNCHANGED <<Dimension, feed, pc, data_length_, mean_,
                          residuals_, covariance_>>

\* the scalars of the next data point, and the arguments a caller can pass
Scalars == IF inserts < Len(feed) THEN feed[inserts + 1] ELSE {}
\* (elements past _Dimension are never read: they repeat the first one)
Points(len) ==
  {s \in [1 .. len -> Scalars] : \A k \in (Dimension + 1) .. len : s[k] = s[1]}
ArgLens == (Dimension - 1) .. (Dimension + 1)

\* p(i) = point[i] for i < _Dimension: elements past the end of the argument
\* are whatever lies behind it, elements past _Dimension are never read
Grabbed(point) ==
  {p \in [Cols -> Scalars] : \A i \in Cols : i < Len(point) => p[i] = point[i + 1]}

AddDataEigen(point) ==
  /\ pc = "running"
  /\ inserts < Len(feed)
  /\ AddDataCore(Dimension, point)

\* double addData(const std::vector<_Scalar> &point): assert(point.size() ==
\* _Dimension) aborts the process, or is compiled out (NDEBUG)
AddDataVector(point) ==
  /\ pc = "running"
  /\ inserts < Len(feed)
  /\ \/ /\ Len(point) # Dimension
        /\ pc' = "aborted"
        /\ ret' = Result("addData", Len(point), Zero, ZeroVector, ZeroMatrix, 0)
        /\ UNCHANGED <<Dimension, feed, tracker, inserts, recent, seenMean, seenCov,
                       written>>
     \/ \E p \in Grabbed(point) : AddDataCore(Len(point), p)

\* double addData(const _Scalar point[]): no check of the length
AddDataArray(point) ==
  /\ pc = "running"
  /\ inserts < Len(feed)
  /\ \E p \in Grabbed(point) : AddDataCore(Len(point), p)

\* mutant: getMean() marks the covariance as up to date as well
GetMeanClearsCov ==
  /\ pc = "running"
  /\ mean_' = MeanValue(update_mean_, data_double_, num_used_data_, mean_)
  /\ update_mean_' = (IF update_mean_ THEN FALSE ELSE update_mean_)
  /\ update_cov_' = (IF update_mean_ THEN FALSE ELSE update_cov_)
  /\ ret' = Result("getMean", 0, Zero, mean_', ZeroMatrix, 0)
  /\ seenMean' = <<mean_'>>
  /\ UNCHANGED <<Dimension, feed, pc, data_length_, newest_data_,
                 num_used_data_, update_residuals_, data_double_,
                 residuals_, covariance_, inserts, recent, seenCov, written>>

\* Eigen::Matrix<double, _Dimension, 1> getMean(void)
GetMean ==
  /\ pc = "running"
  /\ mean_' = MeanValue(update_mean_, data_double_, num_used_data_, mean_)
  /\ update_mean_' = (IF update_mean_ THEN FALSE ELSE update_mean_)
  /\ ret' = Result("getMean", 0, Zero, mean_', ZeroMatrix, 0)
  /\ seenMean' = <<mean_'>>
  /\ UNCHANGED <<Dimension, feed, pc, data_length_, newest_data_,
                 num_used_data_, update_cov_, update_residuals_, data_double_,
                 residuals_, covariance_, inserts, recent, seenCov, written>>

\* mutant: calculateResiduals subtracts the means in place, in data_double_
GetCovarianceInPlace ==
  /\ pc = "running"
  /\ IF NeedsCovariance(update_cov_, num_used_data_)
     THEN LET mean == MeanValue(update_mean_, data_double_, num_used_data_, mean_)
              res == IF update_residuals_ THEN ResidualsOf(data_double_, mean)
                     ELSE residuals_
          IN  /\ mean_' = mean
              /\ update_mean_' = FALSE
              /\ residuals_' = res
              /\ data_double_' = res
              /\ update_residuals_' = FALSE
              /\ update_cov_' = FALSE
              /\ covariance_' = CovarianceOf(res, num_used_data_)
     ELSE UNCHANGED <<mean_, update_mean_, residuals_, update_residuals_,
                      update_cov_, covariance_, data_double_>>
  /\ ret' = Result("getCovariance", 0, Zero, ZeroVector, covariance_', 0)
  /\ seenCov' = <<covariance_'>>
  /\ UNCHANGED <<Dimension, feed, pc, data_length_, newest_data_,
                 num_used_data_, inserts, recent, seenMean, written>>

\* Eigen::Matrix<double, _Dimension, _Dimension> getCovariance(void):
\* getMean(); calculateResiduals(); covariance_ = ...
GetCovariance ==
  /\ pc = "running"
  /\ IF NeedsCovariance(update_cov_, num_used_data_)
     THEN LET mean == MeanValue(update_mean_, data_double_, num_used_data_, mean_)
              res == IF update_residuals_ THEN ResidualsOf(data_double_, mean)
                     ELSE residuals_
          IN  /\ mean_' = mean
              /\ update_mean_' = FALSE
              /\ residuals_' = res
              /\ update_residuals_' = FALSE
              /\ update_cov_' = FALSE
              /\ covariance_' = CovarianceOf(res, num_used_data_)
     ELSE UNCHANGED <<mean_, update_mean_, residuals_, update_residuals_,
                      update_cov_, covariance_>>
  /\ ret' = Result("getCovariance", 0, Zero, ZeroVector, covariance_', 0)
  /\ seenCov' = <<covariance_'>>
  /\ UNCHANGED <<Dimension, feed, pc, data_length_, newest_data_,
                 num_used_data_, data_double_, inserts, recent, seenMean, written>>

\* double getFractionUsed(void) const
GetFractionUsed ==
  /\ pc = "running"
  /\ ret' = Result("getFractionUsed", 0, FractionUsed(num_used_data_, data_length_),
                   ZeroVector, ZeroMatrix, 0)
  /\ UNCHANGED <<Dimension, feed, pc, tracker, inserts, recent,
                 seenMean, seenCov, written>>

\* mutant: the number of data in use returned for the number that can be stored
GetDataLengthReturnsUsed ==
  /\ pc = "running"
  /\ ret' = Result("getDataLength", 0, Zero, ZeroVector, ZeroMatrix, num_used_data_)
  /\ UNCHANGED <<Dimension, feed, pc, tracker, inserts, recent,
                 seenMean, seenCov, written>>

\* int getDataLength(void) const
GetDataLength ==
  /\ pc = "running"
  /\ ret' = Result("getDataLength", 0, Zero, ZeroVector, ZeroMatrix, data_length_)
  /\ UNCHANGED <<Dimension, feed, pc, tracker, inserts, recent,
                 seenMean, seenCov, written>>

\* int getDimension(void) const
GetDimension ==
  /\ pc = "running"
  /\ ret' = Result("getDimension", 0, Zero, ZeroVector, ZeroMatrix, Dimension)
  /\ UNCHANGED <<Dimension, feed, pc, tracker, inserts, recent,
                 seenMean, seenCov, written>>

Next ==
  \/ \E point \in [Cols -> Scalars] : AddDataEigen(point)
  \/ \E len \in ArgLens : \E point \in Points(len) : AddDataVector(point)
  \/ \E len \in ArgLens : \E point \in Points(len) : AddDataArray(point)
  \/ GetMean
  \/ GetCovariance
  \/ GetFractionUsed
  \/ GetDataLength
  \/ GetDimension

Spec == Init /\ [][Next]_vars

\* ------------------------------------------------- what the claims speak of
One == <<1, 1>>
Min(a, b) == IF a < b THEN a ELSE b

\* the running tracker has answered the call op
Returned(op) == pc = "running" /\ ret.op = op

\* the valid rows of the window: physical rows [0, num_used_data_)
ValidRows == 0 .. (num_used_data_ - 1)

\* the valid rows hold the points of the sequence s, as a multiset
HoldsExactly(s) ==
  /\ num_used_data_ = Len(s)
  /\ \A x \in {data_double_[r] : r \in ValidRows} \cup {s[k] : k \in 1 .. Len(s)} :
       Cardinality({r \in ValidRows : data_double_[r] = x})
         = Cardinality({k \in 1 .. Len(s) : s[k] = x})

\* sum of coordinate i of the first n points of the sequence s
RECURSIVE SampleSum(_, _, _)
SampleSum(s, n, i) ==
  IF n = 0 THEN Zero ELSE RAdd(SampleSum(s, n - 1, i), s[n][i])

\* arithmetic mean of the points of s
SampleMean(s) ==
  [i \in Cols |-> RDiv(SampleSum(s, Len(s), i), ToDouble(Len(s)))]

\* sum over the first n points of s of (x_i - m_i) * (x_j - m_j)
RECURSIVE CrossSum(_, _, _, _, _)
CrossSum(s, m, n, i, j) ==
  IF n = 0 THEN Zero
  ELSE RAdd(CrossSum(s, m, n - 1, i, j),
            RMul(RSub(s[n][i], m[i]), RSub(s[n][j], m[j])))

\* sample covariance (divisor n - 1) of the points of s
SampleCovariance(s) ==
  LET m == SampleMean(s)
  IN  [i \in Cols |-> [j \in Cols |->
         RDiv(CrossSum(s, m, Len(s), i, j), ToDouble(Len(s) - 1))]]

\* ------------------------------------------------------------------- claims

\* C1: with a capacity above 1, after n inserts the occupancy is min(n, capacity)
\* and the rows [0, occupancy) hold exactly the min(n, capacity) most recently
\* inserted samples, as a multiset.
C1_WindowHoldsMostRecent ==
  data_length_ > 1 =>
    /\ num_used_data_ = Min(inserts, data_length_)
    /\ Len(recent) = Min(inserts, data_length_)
    /\ HoldsExactly(recent)

\* C1 witness: more samples than the capacity were inserted, the last insert
\* evicted one and the reads ran in between
C1_Witness ==
  /\ data_length_ > 1
  /\ inserts > data_length_
  /\ num_used_data_ = data_length_
  /\ Returned("addData")
  /\ recent[Len(recent)] # recent[1]

\* C2: once a sample was inserted, mean() returns the per-dimension arithmetic
\* mean of exactly the samples now in the window (the most recent min(n, C)).
C2_MeanOfCurrentWindow ==
  (Returned("getMean") /\ inserts >= 1) => ret.vec = SampleMean(recent)

\* C2 witness: mean() answered after capacity + 1 inserts, and the window's mean
\* is not zero
C2_Witness ==
  /\ Returned("getMean")
  /\ data_length_ > 1
  /\ inserts = data_length_ + 1
  /\ ret.vec # ZeroVector

\* C3: with occupancy > 1, covariance() returns the sample covariance of the
\* current window: sums of products of deviations from the window's mean,
\* divided by occupancy - 1.
C3_CovarianceOfCurrentWindow ==
  (Returned("getCovariance") /\ num_used_data_ > 1) =>
    ret.mat = SampleCovariance(recent)

\* C3 witness: D = 1, capacity 5, inserts 1,2,3,4,5: covariance() returned 2.5
C3_Witness ==
  /\ Returned("getCovariance")
  /\ Dimension = 1
  /\ data_length_ = 5
  /\ recent = <<[i \in Cols |-> <<1, 1>>], [i \in Cols |-> <<2, 1>>],
                [i \in Cols |-> <<3, 1>>], [i \in Cols |-> <<4, 1>>],
                [i \in Cols |-> <<5, 1>>]>>
  /\ ret.mat[0][0] = <<5, 2>>

\* C4: with a capacity C > 1, after k <= C inserts fraction_used() is exactly
\* k / C, and the k-th insert returned fraction_used() as of right after it.
C4_FractionIsInsertsOverCapacity ==
  (data_length_ > 1 /\ inserts <= data_length_) =>
    /\ Returned("getFractionUsed") => ret.frac = Rat(inserts, data_length_)
    /\ Returned("addData") =>
         /\ ret.frac = Rat(inserts, data_length_)
         /\ ret.frac = Rat(num_used_data_, data_length_)

\* C4 witness: fraction_used() answered on a partly filled window
C4_Witness ==
  /\ Returned("getFractionUsed")
  /\ data_length_ > 1
  /\ 0 < inserts
  /\ inserts < data_length_
  /\ ret.frac = Rat(inserts, data_length_)

\* C5: 0 <= occupancy <= capacity in every reachable state, and fraction_used()
\* and every value an insert returns lie in [0, 1].
C5_OccupancyAndFractionInRange ==
  /\ 0 <= num_used_data_
  /\ num_used_data_ <= data_length_
  /\ (Returned("getFractionUsed") \/ Returned("addData")) =>
       (RLeq(Zero, ret.frac) /\ RLeq(ret.frac, One))

\* C6: while occupancy <= 1, covariance() returns the all-zero matrix, as a
\* normal return, whatever reads came before.
C6_CovarianceZeroBelowTwoSamples ==
  (ret.op = "getCovariance" /\ num_used_data_ <= 1) =>
    (pc = "running" /\ ret.mat = ZeroMatrix)

\* C6 witness: covariance() answered with one sample in the window, after a mean()
C6_Witness ==
  /\ Returned("getCovariance")
  /\ num_used_data_ = 1
  /\ seenMean # << >>
  /\ update_cov_

\* C7: on a freshly constructed tracker (no insert yet; here of a capacity
\* above 1) mean() returns the zero vector.
C7_FreshMeanIsZero ==
  (Returned("getMean") /\ inserts = 0 /\ data_length_ > 1) => ret.vec = ZeroVector

\* a step that is a call of addData with an argument of the wrong length, on a
\* tracker of a capacity above 1
MismatchedInsert ==
  /\ data_length_ > 1
  /\ ret'.op = "addData"
  /\ ret'.arglen # Dimension
  /\ (inserts' # inserts \/ pc' # pc)

\* C8: an insert whose sample length differs from D is rejected with an error
\* (the call does not return normally) and leaves the whole tracker state
\* unchanged: no sample is truncated or padded into the window.
C8_MismatchRejectedStateUnchanged ==
  [][MismatchedInsert => (pc' # "running" /\ UNCHANGED tracker)]_vars

\* C9: a tracker with capacity <= 1 is refused at construction, so none ever
\* accepts an insert or answers a read.
C9_NoTrackerOfCapacityBelowTwo ==
  data_length_ <= 1 => (inserts = 0 /\ ret.op = "CovarianceTracker")

\* C10: with no insert in between, every mean() returns what the earlier mean()
\* calls returned and every covariance() what the earlier covariance() calls
\* returned, in any interleaving of the two.
C10_ReadsIdempotent ==
  [][/\ (ret'.op = "getMean" /\ seenMean # << >>) => ret'.vec = seenMean[1]
     /\ (ret'.op = "getCovariance" /\ seenCov # << >>) => ret'.mat = seenCov[1]]_vars

\* C10 witness: mean() answered again after a covariance() that recomputed,
\* with no insert in between
C10_Witness ==
  /\ Returned("getMean")
  /\ seenMean # << >>
  /\ seenCov # << >>
  /\ seenCov[1] # ZeroMatrix
  /\ num_used_data_ > 1

\* C11: the matrix covariance() returns is symmetric and every diagonal entry
\* of it is non-negative, in every reachable state.
C11_CovarianceSymmetricDiagonalNonNegative ==
  Returned("getCovariance") =>
    /\ \A i \in Cols : \A j \in Cols : ret.mat[i][j] = ret.mat[j][i]
    /\ \A i \in Cols : RLeq(Zero, ret.mat[i][i])

\* C11 witness: covariance() returned a 2 x 2 matrix with unequal positive
\* variances and a non-zero off-diagonal entry
C11_Witness ==
  /\ Returned("getCovariance")
  /\ Dimension = 2
  /\ ret.mat[0][1] # Zero
  /\ ret.mat[0][0] # ret.mat[1][1]
  /\ ret.mat[0][0] # Zero
  /\ ret.mat[1][1] # Zero

\* C12: every successful insert leaves all three stale flags true, whatever
\* they were before.
C12_InsertSetsAllFlags ==
  [][inserts' # inserts => (update_mean_' /\ update_cov_' /\ update_residuals_')]_vars

\* C12 witness: the third insert came right after a covariance() that had
\* cleared the three flags
C12_Witness ==
  /\ Returned("addData")
  /\ inserts = 3
  /\ covariance_ # ZeroMatrix
  /\ update_mean_ /\ update_cov_ /\ update_residuals_

\* C13 as claimed: after mean() returns the mean-stale flag is false, and after
\* covariance() returns the covariance-stale and the residuals-stale flags are
\* false (here for a capacity above 1).
C13_ReadLeavesFresh ==
  data_length_ > 1 =>
    /\ Returned("getMean") => ~update_mean_
    /\ Returned("getCovariance") => (~update_cov_ /\ ~update_residuals_)

\* C13 amended: after mean() returns the mean-stale flag is false; after
\* covariance() returns with occupancy > 1 all three flags are false, and with
\* occupancy <= 1 it leaves the three flags as they were; a flag that is false
\* stays false until the next insert.
C13_ReadLeavesFreshAboveOneSample ==
  [][/\ ret'.op = "getMean" => ~update_mean_'
     /\ (ret'.op = "getCovariance" /\ num_used_data_' > 1) =>
          (~update_mean_' /\ ~update_cov_' /\ ~update_residuals_')
     /\ (ret'.op = "getCovariance" /\ num_used_data_' <= 1) =>
          UNCHANGED <<update_mean_, update_cov_, update_residuals_>>
     /\ inserts' = inserts =>
          /\ ~update_mean_ => ~update_mean_'
          /\ ~update_cov_ => ~update_cov_'
          /\ ~update_residuals_ => ~update_residuals_']_vars

\* C13 witness: covariance() answered on two or more samples after an insert,
\* and then mean() answered from the cache
C13_Witness ==
  /\ Returned("getMean")
  /\ seenCov # << >>
  /\ num_used_data_ > 1
  /\ ~update_mean_ /\ ~update_cov_ /\ ~update_residuals_

C15_CapacityAndDimensionFixed ==
  [][/\ data_length_' = data_length_
     /\ Dimension' = Dimension
     /\ ret'.op = "getDataLength" => ret'.int = Cardinality(DOMAIN data_double_)
     /\ ret'.op = "getDimension" => ret'.int = Cardinality(DOMAIN covariance_)]_vars

\* C15 witness: capacity() answered after the window had wrapped and the reads
\* had recomputed
C15_Witness ==
  /\ Returned("getDataLength")
  /\ data_length_ > 1
  /\ inserts > data_length_
  /\ ~update_cov_
  /\ ret.int = data_length_

\* C16: every insert sets the cursor to (cursor + 1) mod capacity, the row at
\* the cursor then holds exactly the sample just inserted, and the cursor is
\* within [0, capacity) after the first insert.
C16_CursorAdvancesCircularly ==
  [][inserts' # inserts =>
       /\ newest_data_' = (newest_data_ + 1) % data_length_
       /\ newest_data_' >= 0
       /\ newest_data_' < data_length_
       /\ data_double_'[newest_data_'] = recent'[Len(recent')]]_vars

\* C16 witness: an insert wrapped the cursor from the last row to row 0
C16_Witness ==
  /\ Returned("addData")
  /\ data_length_ > 1
  /\ inserts = data_length_ + 1
  /\ newest_data_ = 0
  /\ Dimension = 2
  /\ data_double_[0][0] # data_double_[0][1]

\* C17: an insert writes exactly one window row, the row at the new cursor, and
\* leaves every other row and the cached mean, residuals and covariance
\* unchanged; when occupancy = capacity the row it overwrites held the oldest
\* sample of the window.
C17_InsertFrame ==
  [][inserts' # inserts =>
       /\ \A r \in Rows : r # newest_data_' => data_double_'[r] = data_double_[r]
       /\ mean_' = mean_
       /\ residuals_' = residuals_
       /\ covariance_' = covariance_
       /\ num_used_data_ = data_length_ => data_double_[newest_data_'] = recent[1]]_vars

\* C17 witness: an insert into a full window of distinct samples, with caches
\* that a covariance() had filled
C17_Witness ==
  /\ Returned("addData")
  /\ data_length_ > 1
  /\ inserts > data_length_
  /\ covariance_ # ZeroMatrix
  /\ \A r \in Rows : \A q \in Rows : r # q => data_double_[r] # data_double_[q]

\* C18: mean() and covariance() never change the window rows, the cursor or the
\* occupancy; fraction_used(), dimension() and capacity() change no state of
\* the tracker at all, caches and stale flags included.
C18_ReadFrame ==
  [][/\ ret'.op \in {"getMean", "getCovariance"} =>
          UNCHANGED <<data_double_, newest_data_, num_used_data_, data_length_>>
     /\ ret'.op \in {"getFractionUsed", "getDimension", "getDataLength"} =>
          UNCHANGED tracker]_vars

\* C18 witness: covariance() recomputed mean, residuals and covariance of a
\* window with non-zero mean
C18_Witness ==
  /\ Returned("getCovariance")
  /\ num_used_data_ > 1
  /\ ~update_residuals_
  /\ mean_ # ZeroVector
  /\ residuals_ # data_double_

\* C19: while the window is not yet saturated (at least one insert, fewer than
\* capacity) cursor = occupancy - 1 and the rows [0, occupancy) are exactly the
\* rows that were written; the rows that mean() and covariance() read are
\* never rows that were not written.
C19_ValidRowsAreWrittenRows ==
  /\ ValidRows \subseteq written
  /\ (1 <= inserts /\ inserts < data_length_) =>
       /\ newest_data_ = num_used_data_ - 1
       /\ ValidRows = written

\* C19 witness: mean() answered on a partly filled window
C19_Witness ==
  /\ Returned("getMean")
  /\ inserts >= 2
  /\ inserts < data_length_
  /\ written # Rows

\* a double that is neither NaN nor an infinity
Finite(x) == x[2] # 0

\* C20: no recomputation divides by zero: when the mean-stale flag is true the
\* occupancy is at least 1, the covariance is recomputed only with occupancy at
\* least 2, and no cached mean or covariance is the result of a division by 0.
C20_NoDivisionByZero ==
  /\ [](update_mean_ => num_used_data_ >= 1)
  /\ [][/\ (update_cov_ /\ ~update_cov_') => num_used_data_ >= 2
        /\ covariance_' # covariance_ => num_used_data_ >= 2
        /\ \A i \in Cols : Finite(mean_'[i])
        /\ \A i \in Cols : \A j \in Cols : Finite(covariance_'[i][j])]_vars

\* C20 witness: covariance() answered with a single sample and stale flags: no
\* recomputation, no division
C20_Witness ==
  /\ Returned("getCovariance")
  /\ num_used_data_ = 1
  /\ update_mean_
  /\ update_cov_
  /\ data_length_ > 1

\* mean() has answered since the last insert and covariance() has not
MeanReadAfterInsert == inserts > 0 /\ seenMean # << >> /\ seenCov = << >>

C22_ResidualsFlagEqualsCovarianceFlag ==
  /\ [](update_residuals_ = update_cov_)
  /\ [][(covariance_' # covariance_ \/ (update_cov_ /\ ~update_cov_')) =>
          /\ ret'.op = "getCovariance"
          /\ num_used_data_ > 1
          /\ update_residuals_ /\ ~update_residuals_'
          /\ residuals_' = ResidualsOf(data_double_, mean_')]_vars

\* C22 witness: an insert has set both flags again after a covariance() that
\* had cleared both
C22_Witness ==
  /\ Returned("addData")
  /\ update_residuals_
  /\ update_cov_
  /\ covariance_ # ZeroMatrix
  /\ num_used_data_ > 1

====
